---- MODULE Spec2Model ----
(***************************************************************************)
(* Model of the stack frame simulation engine of c-viz                     *)
(* (frontend/src/utils/stackSimulator.js).                                 *)
(*                                                                         *)
(* Strings are sequences of one-character strings, so that toLowerCase,    *)
(* includes, trim, parseInt and template formatting are computed as the    *)
(* JavaScript computes them.  AST nodes are records; a property the JSON   *)
(* node does not have (name, children) is a field the record does not      *)
(* have, and a null entry is the record Null.                              *)
(***************************************************************************)
EXTENDS Integers, Sequences, FiniteSets, TLC

VARIABLES
    ast,            \* the ast argument of the current call
    maxDepth,       \* the maxDepth argument of the current call
    pc,             \* "idle" | "described" | "simulating" | "returned" | "threw"
    functions,      \* simulateRecursion's local function table
    recursiveFunc,  \* simulateRecursion's local recursiveFunc (NoName = null)
    stepInfo,       \* simulateRecursion's local stepInfo
    calls,          \* the live activations of simulateCall, outermost first
    trace,          \* simulateRecursion's local trace (its return value)
    info,           \* the value getRecursiveInfo returned for ast
    first,          \* history: a completed call of the session, remembered
    provider,       \* the state of ASTProvider and its parse request in flight
    view            \* the state of the mounted StackVisualizer

vars == <<ast, maxDepth, pc, functions, recursiveFunc, stepInfo, calls, trace,
          info, first, provider, view>>

(***************************************************************************)
(* JavaScript values                                                       *)
(***************************************************************************)

\* null / undefined where a node is expected
Null == [isNull |-> TRUE]

\* null where a name is expected; also the empty string (both are falsy)
NoName == <<>>

\* a normal completion with value v
Ok(v) == [ok |-> TRUE, val |-> v]

\* an uncaught TypeError (a property read on null)
TypeError == [ok |-> FALSE, val |-> Null]

\* !node
IsNull(node) == "isNull" \in DOMAIN node

\* node.children || []
ChildrenOf(node) == IF "children" \in DOMAIN node THEN node.children ELSE <<>>

\* node.name (undefined is read as the empty string: only its truthiness
\* and, when truthy, its characters are used)
NameOf(node) == IF "name" \in DOMAIN node THEN node.name ELSE NoName

\* node.type
TypeOf(node) == IF "type" \in DOMAIN node THEN node.type ELSE "undefined"

\* truthiness of a string
Truthy(s) == s # <<>>

(***************************************************************************)
(* String primitives                                                       *)
(***************************************************************************)

UpperChars == <<"A","B","C","D","E","F","G","H","I","J","K","L","M",
                "N","O","P","Q","R","S","T","U","V","W","X","Y","Z">>

LowerChars == <<"a","b","c","d","e","f","g","h","i","j","k","l","m",
                "n","o","p","q","r","s","t","u","v","w","x","y","z">>

DigitChars == <<"0","1","2","3","4","5","6","7","8","9">>

WhiteChars == {" ", "\t", "\n"}

\* position of character c in sequence cs, 0 when absent
IndexOf(c, cs) ==
    IF \E i \in DOMAIN cs : cs[i] = c
    THEN CHOOSE i \in DOMAIN cs : cs[i] = c
    ELSE 0

\* a faulty variant of toLowerCase, for comparison: the string is left as it is
toLowerCaseKept(s) == s

\* String.prototype.toLowerCase
toLowerCase(s) ==
    [i \in DOMAIN s |->
        IF IndexOf(s[i], UpperChars) > 0
        THEN LowerChars[IndexOf(s[i], UpperChars)]
        ELSE s[i]]

\* String.prototype.includes
includes(s, sub) ==
    \E i \in 0 .. (Len(s) - Len(sub)) : SubSeq(s, i + 1, i + Len(sub)) = sub

\* String.prototype.trim
trim(s) ==
    LET keep == {i \in DOMAIN s : s[i] \notin WhiteChars}
    IN  IF keep = {} THEN <<>>
        ELSE SubSeq(s, CHOOSE i \in keep : \A j \in keep : i <= j,
                       CHOOSE i \in keep : \A j \in keep : i >= j)

RECURSIVE DigitsValue(_, _)
\* value of the longest prefix of decimal digits of s, from accumulator acc
DigitsValue(s, acc) ==
    IF s = <<>> \/ IndexOf(Head(s), DigitChars) = 0 THEN acc
    ELSE DigitsValue(Tail(s), 10 * acc + (IndexOf(Head(s), DigitChars) - 1))

\* parseInt(s) for a string s, radix 10: leading white space is skipped, a
\* sign is optional, the digits that follow are read and the rest is
\* ignored; no digit gives NaN.  (A 0x prefix, read as hexadecimal by the
\* engine, is no name of the modelled trees.)
parseInt(s) ==
    LET t    == trim(s)
        neg  == t # <<>> /\ Head(t) = "-"
        sgn  == t # <<>> /\ Head(t) \in {"-", "+"}
        body == IF sgn THEN Tail(t) ELSE t
    IN  IF body = <<>> \/ IndexOf(Head(body), DigitChars) = 0
        THEN [isNaN |-> TRUE, value |-> 0]
        ELSE [isNaN |-> FALSE,
              value |-> IF neg THEN 0 - DigitsValue(body, 0)
                        ELSE DigitsValue(body, 0)]

RECURSIVE NatToString(_)
\* decimal digits of a natural number
NatToString(n) ==
    IF n < 10 THEN <<DigitChars[n + 1]>>
    ELSE NatToString(n \div 10) \o <<DigitChars[(n % 10) + 1]>>

\* String(n) for an integer n
NumberToString(n) == IF n < 0 THEN <<"-">> \o NatToString(0 - n) ELSE NatToString(n)

(***************************************************************************)
(* extractFunctions (lines 9-39)                                           *)
(*                                                                         *)
(* The table is an object: its keys in insertion order (Object.keys and    *)
(* for-in visit identifier keys in that order) and the record of each key. *)
(***************************************************************************)

EmptyTable == [keys |-> <<>>, rec |-> <<>>]

\* position of key name in the table, 0 when absent
KeyIndex(table, name) == IndexOf(name, table.keys)

\* functions[name] (Null when undefined)
Lookup(table, name) ==
    IF KeyIndex(table, name) > 0 THEN table.rec[KeyIndex(table, name)] ELSE Null

\* a faulty variant of Assign, for comparison: an existing key keeps its record
AssignKeepFirst(table, name, r) ==
    IF KeyIndex(table, name) > 0 THEN table
    ELSE [keys |-> Append(table.keys, name), rec |-> Append(table.rec, r)]

\* functions[name] = r: a new key is appended, an existing key keeps its
\* position and gets the new record
Assign(table, name, r) ==
    IF KeyIndex(table, name) > 0
    THEN [table EXCEPT !.rec[KeyIndex(table, name)] = r]
    ELSE [keys |-> Append(table.keys, name), rec |-> Append(table.rec, r)]

RECURSIVE CollectParams(_, _)
\* the loop of lines 17-21 over children from index i: child.type is read
\* on every child, so a null child raises
CollectParams(children, i) ==
    IF i > Len(children) THEN Ok(<<>>)
    ELSE IF IsNull(children[i]) THEN TypeError
    ELSE LET rest == CollectParams(children, i + 1)
         IN  IF ~rest.ok THEN TypeError
             ELSE IF TypeOf(children[i]) = "PARM_DECL" /\ Truthy(NameOf(children[i]))
                  THEN Ok(<<NameOf(children[i])>> \o rest.val)
                  ELSE rest

\* a faulty variant of FunctionRecord, for comparison: the parameters are not recorded
FunctionRecordNoParams(node, params) ==
    [name |-> node.name, line |-> node.line, params |-> <<>>,
     body |-> node, isRecursive |-> FALSE, calls |-> <<>>]

\* the record of lines 23-29
FunctionRecord(node, params) ==
    [name |-> node.name, line |-> node.line, params |-> params,
     body |-> node, isRecursive |-> FALSE, calls |-> <<>>]

RECURSIVE traverse(_, _), traverseChildren(_, _, _)
\* extractFunctions' traverse (lines 12-35) from table `table`
traverse(node, table) ==
    IF IsNull(node) THEN Ok(table)
    ELSE IF TypeOf(node) = "FUNCTION_DECL" /\ Truthy(NameOf(node))
    THEN LET params == CollectParams(ChildrenOf(node), 1)
         IN  IF ~params.ok THEN TypeError
             ELSE traverseChildren(ChildrenOf(node), 1,
                      Assign(table, node.name, FunctionRecord(node, params.val)))
    ELSE traverseChildren(ChildrenOf(node), 1, table)

\* the loop of lines 32-34 from child i
traverseChildren(children, i, table) ==
    IF i > Len(children) THEN Ok(table)
    ELSE LET t == traverse(children[i], table)
         IN  IF ~t.ok THEN TypeError
             ELSE traverseChildren(children, i + 1, t.val)

extractFunctions(tree) == traverse(tree, EmptyTable)

(***************************************************************************)
(* findCalleeFromFirstChild (lines 45-75)                                  *)
(***************************************************************************)

RECURSIVE searchForName(_), searchChildren(_, _)
\* a faulty variant of searchForName, for comparison: a name of white space counts as a name
searchForNameUntrimmed(node) ==
    IF IsNull(node) THEN NoName
    ELSE IF Truthy(NameOf(node)) THEN node.name
    ELSE searchChildren(ChildrenOf(node), 1)

searchForName(node) ==
    IF IsNull(node) THEN NoName
    ELSE IF TypeOf(node) = "DECL_REF_EXPR" /\ Truthy(NameOf(node)) THEN node.name
    ELSE IF Truthy(NameOf(node)) /\ Truthy(trim(node.name)) THEN node.name
    ELSE searchChildren(ChildrenOf(node), 1)

\* the loop of lines 66-69 from child i
searchChildren(children, i) ==
    IF i > Len(children) THEN NoName
    ELSE LET found == searchForName(children[i])
         IN  IF Truthy(found) THEN found ELSE searchChildren(children, i + 1)

\* a faulty variant of findCalleeFromFirstChild, for comparison: the arguments are searched
\* when the first child holds no name
findCalleeFromAnyChild(callExprNode) ==
    IF IsNull(callExprNode) THEN NoName
    ELSE searchChildren(ChildrenOf(callExprNode), 1)

findCalleeFromFirstChild(callExprNode) ==
    IF IsNull(callExprNode) \/ Len(ChildrenOf(callExprNode)) = 0 THEN NoName
    ELSE searchForName(ChildrenOf(callExprNode)[1])

(***************************************************************************)
(* findAllCalls (lines 80-109)                                             *)
(***************************************************************************)

\* a faulty variant of CallKey, for comparison: the key is the callee name alone
CallKeyNameOnly(calleeName, line) == calleeName

\* the key of line 94
CallKey(calleeName, line) == calleeName \o <<"-">> \o NumberToString(line)

RECURSIVE findCalls(_, _, _), findCallsIn(_, _, _, _)
\* findAllCalls' traverse from accumulator acc = [calls, seen]
findCalls(n, funcNames, acc) ==
    IF IsNull(n) THEN acc
    ELSE LET calleeName == findCalleeFromFirstChild(n)
             key == CallKey(calleeName, n.line)
             here ==
                 IF /\ TypeOf(n) = "CALL_EXPR"
                    /\ Truthy(calleeName)
                    /\ IndexOf(calleeName, funcNames) > 0
                    /\ key \notin acc.seen
                 THEN [calls |-> Append(acc.calls,
                                   [name |-> calleeName, line |-> n.line]),
                       seen |-> acc.seen \cup {key}]
                 ELSE acc
         IN  findCallsIn(ChildrenOf(n), 1, funcNames, here)

\* the loop of lines 102-104 from child i
findCallsIn(children, i, funcNames, acc) ==
    IF i > Len(children) THEN acc
    ELSE findCallsIn(children, i + 1, funcNames,
                     findCalls(children[i], funcNames, acc))

findAllCalls(node, funcNames) ==
    findCalls(node, funcNames, [calls |-> <<>>, seen |-> {}]).calls

(***************************************************************************)
(* detectRecursiveFunctions (lines 114-132)                                *)
(***************************************************************************)

\* a faulty variant of Detected, for comparison: a function with any resolved call is flagged
DetectedAnyCall(func, funcNames) ==
    LET found == findAllCalls(func.body, funcNames)
    IN  [func EXCEPT !.isRecursive = found # <<>>, !.calls = found]

\* the body of the loop for one function record
Detected(func, funcNames) ==
    LET found == findAllCalls(func.body, funcNames)
    IN  [func EXCEPT
            !.isRecursive = \E i \in DOMAIN found : found[i].name = func.name,
            !.calls = found]

detectRecursiveFunctions(table) ==
    [keys |-> table.keys,
     rec  |-> [i \in DOMAIN table.rec |-> Detected(table.rec[i], table.keys)]]

(***************************************************************************)
(* calculateReturn (lines 137-155)                                         *)
(***************************************************************************)

RECURSIVE FibLoop(_, _, _, _)
\* the loop of lines 142-144 from counter i
FibLoop(i, value, a, b) ==
    IF i > value THEN b ELSE FibLoop(i + 1, value, b, a + b)

RECURSIVE FactLoop(_, _, _)
\* the loop of lines 149-151 from counter i
FactLoop(i, value, result) ==
    IF i > value THEN result ELSE FactLoop(i + 1, value, result * i)

\* a faulty variant of calculateReturn, for comparison: every function returns its argument
calculateReturnIdentity(funcName, value) == value

calculateReturn(funcName, value) ==
    LET lower == toLowerCase(funcName)
    IN  IF includes(lower, <<"f","i","b">>)
        THEN IF value <= 1 THEN value ELSE FibLoop(2, value, 0, 1)
        ELSE IF \/ includes(lower, <<"f","a","c","t","o","r","i","a","l">>)
                \/ includes(lower, <<"f","a","c","t">>)
        THEN FactLoop(2, value, 1)
        ELSE value

(***************************************************************************)
(* detectRecursiveStep, extractOperator, extractOperand (lines 163-208)    *)
(***************************************************************************)

\* a faulty variant of extractOperator, for comparison: the spelling of the node is reported
\* when it has one
extractOperatorSpelled(node) ==
    IF Truthy(NameOf(node)) THEN NameOf(node)[1] ELSE "-"

\* lines 181-193
extractOperator(node) == "-"

RECURSIVE extractOperandFrom(_, _)
\* the loop of lines 197-206 from child i: child.type is read on every
\* child reached, so a null child raises
extractOperandFrom(children, i) ==
    IF i > Len(children) THEN Ok(1)
    ELSE IF IsNull(children[i]) THEN TypeError
    ELSE IF /\ TypeOf(children[i]) = "INTEGER_LITERAL"
            /\ Truthy(NameOf(children[i]))
            /\ ~parseInt(children[i].name).isNaN
    THEN Ok(parseInt(children[i].name).value)
    ELSE extractOperandFrom(children, i + 1)

extractOperand(node) == extractOperandFrom(ChildrenOf(node), 1)

\* the default of lines 178 and 220
DefaultStep == [operator |-> "-", value |-> 1]

\* Ok(Null) is the null of line 164
detectRecursiveStep(callNode) ==
    IF IsNull(callNode) \/ Len(ChildrenOf(callNode)) < 2 THEN Ok(Null)
    ELSE LET argNode == callNode.children[2]
         IN  IF IsNull(argNode) THEN TypeError
             ELSE IF TypeOf(argNode) = "BINARY_OPERATOR"
             THEN LET operand == extractOperand(argNode)
                  IN  IF ~operand.ok THEN TypeError
                      ELSE Ok([operator |-> extractOperator(argNode),
                               value |-> operand.val])
             ELSE Ok(DefaultStep)

(***************************************************************************)
(* simulateRecursion, analysis part (lines 216-254)                        *)
(***************************************************************************)

\* a faulty variant of FirstRecursive, for comparison: the last key whose
\* record is recursive
LastRecursive(table, i) ==
    IF \E j \in DOMAIN table.keys : table.rec[j].isRecursive
    THEN table.keys[CHOOSE j \in DOMAIN table.keys :
                        /\ table.rec[j].isRecursive
                        /\ \A k \in DOMAIN table.keys : table.rec[k].isRecursive => k <= j]
    ELSE NoName

RECURSIVE FirstRecursive(_, _)
\* the loops of lines 222-233 and 358-366 from key i: the first key whose
\* record is recursive, NoName when there is none
FirstRecursive(table, i) ==
    IF i > Len(table.keys) THEN NoName
    ELSE IF table.rec[i].isRecursive THEN table.keys[i]
    ELSE FirstRecursive(table, i + 1)

RECURSIVE findCallNode(_, _), findCallNodeIn(_, _, _)
\* lines 238-248: node.type is read first, so a null node raises
findCallNode(node, target) ==
    IF IsNull(node) THEN TypeError
    ELSE IF TypeOf(node) = "CALL_EXPR" /\ findCalleeFromFirstChild(node) = target
    THEN Ok(node)
    ELSE findCallNodeIn(ChildrenOf(node), 1, target)

RECURSIVE findCallNodeInReverse(_, _, _)
\* a faulty variant of findCallNodeIn, for comparison: the children are searched from the
\* last to the first
findCallNodeInReverse(children, i, target) ==
    IF i > Len(children) THEN Ok(Null)
    ELSE LET found == findCallNode(children[Len(children) + 1 - i], target)
         IN  IF ~found.ok THEN TypeError
             ELSE IF ~IsNull(found.val) THEN found
             ELSE findCallNodeInReverse(children, i + 1, target)

\* the loop of lines 243-246 from child i
findCallNodeIn(children, i, target) ==
    IF i > Len(children) THEN Ok(Null)
    ELSE LET found == findCallNode(children[i], target)
         IN  IF ~found.ok THEN TypeError
             ELSE IF ~IsNull(found.val) THEN found
             ELSE findCallNodeIn(children, i + 1, target)

\* lines 236-254: the step rule of the selected function
StepOf(table, target) ==
    LET callNode == findCallNode(Lookup(table, target).body, target)
    IN  IF ~callNode.ok THEN TypeError
        ELSE IF IsNull(callNode.val) THEN Ok(DefaultStep)
        ELSE LET detected == detectRecursiveStep(callNode.val)
             IN  IF ~detected.ok THEN TypeError
                 ELSE IF IsNull(detected.val) THEN Ok(DefaultStep)
                 ELSE detected

\* a faulty variant of Analysis, for comparison: the last recursive function is selected
AnalysisOfLast(tree) ==
    LET extracted == extractFunctions(tree)
    IN  IF ~extracted.ok THEN TypeError
        ELSE LET table  == detectRecursiveFunctions(extracted.val)
                 target == LastRecursive(table, 1)
                 step   == IF Truthy(target) THEN StepOf(table, target)
                           ELSE Ok(DefaultStep)
             IN  IF ~step.ok THEN TypeError
                 ELSE Ok([functions |-> table, recursiveFunc |-> target,
                          stepInfo |-> step.val])

\* lines 216-254 as a whole
Analysis(tree) ==
    LET extracted == extractFunctions(tree)
    IN  IF ~extracted.ok THEN TypeError
        ELSE LET table  == detectRecursiveFunctions(extracted.val)
                 target == FirstRecursive(table, 1)
                 step   == IF Truthy(target) THEN StepOf(table, target)
                           ELSE Ok(DefaultStep)
             IN  IF ~step.ok THEN TypeError
                 ELSE Ok([functions |-> table, recursiveFunc |-> target,
                          stepInfo |-> step.val])

(***************************************************************************)
(* getRecursiveInfo (lines 352-369)                                        *)
(***************************************************************************)

\* a faulty variant of getRecursiveInfo, for comparison: the guard of line 353 is missing and a
\* property of the tree is read before anything else
getRecursiveInfoUnguarded(tree) ==
    IF IsNull(tree) THEN TypeError
    ELSE LET extracted == extractFunctions(tree)
         IN  IF ~extracted.ok THEN TypeError
             ELSE LET table == detectRecursiveFunctions(extracted.val)
                      name  == FirstRecursive(table, 1)
                  IN  IF Truthy(name)
                      THEN Ok([name   |-> name,
                               params |-> Lookup(table, name).params,
                               line   |-> Lookup(table, name).line])
                      ELSE Ok(Null)

getRecursiveInfo(tree) ==
    IF IsNull(tree) THEN Ok(Null)
    ELSE LET extracted == extractFunctions(tree)
         IN  IF ~extracted.ok THEN TypeError
             ELSE LET table == detectRecursiveFunctions(extracted.val)
                      name  == FirstRecursive(table, 1)
                  IN  IF Truthy(name)
                      THEN Ok([name   |-> name,
                               params |-> Lookup(table, name).params,
                               line   |-> Lookup(table, name).line])
                      ELSE Ok(Null)

(***************************************************************************)
(* simulateRecursion, simulation part (lines 256-346)                      *)
(***************************************************************************)

\* line 261: the stack size above which simulateCall returns at once
MaxStack == 20

\* line 322: the starting value used when maxDepth is no number
DefaultInitialVal == 5

\* a faulty variant of NewTrace, for comparison: the trace array is shared by all calls
NewTraceKept == trace

\* line 256
NewTrace == <<>>

\* lines 321-322: parseInt(maxDepth) converts the number to a string first
InitialVal(d) ==
    IF parseInt(NumberToString(d)).isNaN THEN DefaultInitialVal
    ELSE parseInt(NumberToString(d)).value

\* a faulty variant of Halted, for comparison: the stack size is not looked at
HaltedDepthOnly(depth, stack) == depth > maxDepth

\* lines 259-261
Halted(depth, stack) == depth > maxDepth \/ Len(stack) > MaxStack

\* a faulty variant of NewFrame, for comparison: depths are numbered from 1
NewFrameOneBased(func, funcName, argValue, depth) ==
    [name        |-> funcName,
     line        |-> func.line,
     depth       |-> depth + 1,
     argName     |-> IF Len(func.params) > 0 /\ Truthy(func.params[1])
                     THEN func.params[1] ELSE <<"n">>,
     argValue    |-> argValue,
     returnValue |-> calculateReturn(funcName, argValue)]

\* lines 266-276
NewFrame(func, funcName, argValue, depth) ==
    [name        |-> funcName,
     line        |-> func.line,
     depth       |-> depth,
     argName     |-> IF Len(func.params) > 0 /\ Truthy(func.params[1])
                     THEN func.params[1] ELSE <<"n">>,
     argValue    |-> argValue,
     returnValue |-> calculateReturn(funcName, argValue)]

\* stack.map(f => f.name)
NamesOf(stack) == [i \in DOMAIN stack |-> stack[i].name]

\* a faulty variant of PushEvent, for comparison: the snapshot is taken before the new frame
\* is added
PushEventCallerOnly(newFrame, newStack) ==
    [action    |-> "push",
     frame     |-> newFrame,
     stack     |-> NamesOf(SubSeq(newStack, 1, Len(newStack) - 1)),
     fullStack |-> SubSeq(newStack, 1, Len(newStack) - 1)]

\* lines 280-286
PushEvent(newFrame, newStack) ==
    [action    |-> "push",
     frame     |-> newFrame,
     stack     |-> NamesOf(newStack),
     fullStack |-> newStack]

\* a faulty variant of IsBaseCase, for comparison: only arguments up to 0 end the descent
IsBaseCaseZero(argValue) == argValue <= 0

\* line 290
IsBaseCase(argValue) == argValue <= 1

\* a faulty variant of NextVal, for comparison: the operand is subtracted without the check
\* of line 300
NextValUnguarded(argValue, step) == argValue - step.value

\* lines 293-303 (extractOperator gives "-" only; the other operators are
\* kept as the code has them, "/" for a positive divisor)
NextVal(argValue, step) ==
    LET applied ==
            CASE step.operator = "-" -> argValue - step.value
              [] step.operator = "+" -> argValue + step.value
              [] step.operator = "/" /\ step.value > 0 -> argValue \div step.value
              [] step.operator = "*" -> argValue * step.value
              [] OTHER -> argValue
    IN  IF applied >= argValue /\ step.operator # "+"
        THEN argValue - 1
        ELSE applied

\* a faulty variant of PopEvent, for comparison: the pop reports the frame on top of the remaining
\* stack instead of the frame that returns
PopEventOfCaller(newFrame, isBaseCase, stack) ==
    LET f == IF stack = <<>> THEN newFrame ELSE stack[Len(stack)]
    IN  [action      |-> "pop",
         frame       |-> [name        |-> f.name,
                          line        |-> f.line,
                          depth       |-> f.depth,
                          argName     |-> f.argName,
                          argValue    |-> f.argValue,
                          returnValue |-> f.returnValue,
                          isBaseCase  |-> isBaseCase],
         stack       |-> NamesOf(stack),
         fullStack   |-> stack,
         returnValue |-> f.returnValue]

\* lines 308-315
PopEvent(newFrame, isBaseCase, stack) ==
    [action      |-> "pop",
     frame       |-> [name        |-> newFrame.name,
                      line        |-> newFrame.line,
                      depth       |-> newFrame.depth,
                      argName     |-> newFrame.argName,
                      argValue    |-> newFrame.argValue,
                      returnValue |-> newFrame.returnValue,
                      isBaseCase  |-> isBaseCase],
     stack       |-> NamesOf(stack),
     fullStack   |-> stack,
     returnValue |-> newFrame.returnValue]

\* a faulty variant of Activation, for comparison: the call runs one level deeper than asked
ActivationDeeper(funcName, argValue, depth, stack) ==
    [funcName |-> funcName, argValue |-> argValue, depth |-> depth + 1,
     stack |-> stack, at |-> "entry", frame |-> Null]

\* an activation of simulateCall that has not run yet
Activation(funcName, argValue, depth, stack) ==
    [funcName |-> funcName, argValue |-> argValue, depth |-> depth,
     stack |-> stack, at |-> "entry", frame |-> Null]

\* a faulty variant of RecursiveCall, for comparison: simulateCall calls itself with its own arguments
RecursiveCallSame(a, newFrame) ==
    Activation(a.funcName, a.argValue, a.depth, a.stack)

\* a faulty variant of RecursiveCall, for comparison: the call goes one level down with
\* the argument of its caller
RecursiveCallHold(a, newFrame) ==
    Activation(a.funcName, a.argValue, a.depth + 1, Append(a.stack, newFrame))

\* line 305: the call simulateCall makes from activation a with frame newFrame
RecursiveCall(a, newFrame) ==
    Activation(a.funcName, NextVal(a.argValue, stepInfo), a.depth + 1,
               Append(a.stack, newFrame))

\* a faulty variant of MainFallback, for comparison: main is pushed and never popped
MainFallbackNoPop(table) ==
    IF IsNull(Lookup(table, <<"m","a","i","n">>)) THEN <<>>
    ELSE << [action    |-> "push",
             frame     |-> [name |-> <<"m","a","i","n">>,
                            line |-> Lookup(table, <<"m","a","i","n">>).line,
                            depth |-> 0, argValue |-> <<>>],
             stack     |-> << <<"m","a","i","n">> >>,
             fullStack |-> << [name |-> <<"m","a","i","n">>,
                               line |-> Lookup(table, <<"m","a","i","n">>).line,
                               depth |-> 0] >>] >>

\* lines 327-343: the trace for a table without recursive function
MainFallback(table) ==
    IF IsNull(Lookup(table, <<"m","a","i","n">>)) THEN <<>>
    ELSE LET line == Lookup(table, <<"m","a","i","n">>).line
         IN  << [action    |-> "push",
                 frame     |-> [name |-> <<"m","a","i","n">>, line |-> line,
                                depth |-> 0, argValue |-> <<>>],
                 stack     |-> << <<"m","a","i","n">> >>,
                 fullStack |-> << [name |-> <<"m","a","i","n">>,
                                   line |-> line, depth |-> 0] >>],
                [action      |-> "pop",
                 frame       |-> [name |-> <<"m","a","i","n">>, line |-> line,
                                  depth |-> 0],
                 stack       |-> <<>>,
                 fullStack   |-> <<>>,
                 returnValue |-> 0] >>

(***************************************************************************)
(* Input trees                                                             *)
(***************************************************************************)

Node(type, line, children) == [type |-> type, line |-> line, children |-> children]

Named(type, name, line, children) ==
    [type |-> type, name |-> name, line |-> line, children |-> children]

\* a node without children property
Leaf(type, name, line) == [type |-> type, name |-> name, line |-> line]

Ref(name, line) == Leaf("DECL_REF_EXPR", name, line)

Lit(text, line) == Leaf("INTEGER_LITERAL", text, line)

\* a call of callee: the callee reference first, then the arguments
CallExpr(callee, line, args) ==
    Named("CALL_EXPR", callee, line,
          <<Named("UNEXPOSED_EXPR", callee, line, <<Ref(callee, line)>>)>> \o args)

\* the expression  p <op> text
BinOp(p, text, line) ==
    Node("BINARY_OPERATOR", line, <<Ref(p, line), Lit(text, line)>>)

\* int f(int p) {
\*     if (p <= 1) {
\*         return 1;
\*     }
\*     return p * <expr>;
\* }
FuncDecl(f, p, line, expr) ==
    Named("FUNCTION_DECL", f, line,
          <<Leaf("PARM_DECL", p, line),
            Node("COMPOUND_STMT", line,
                 <<Node("IF_STMT", line + 1,
                        <<BinOp(p, <<"1">>, line + 1),
                          Node("RETURN_STMT", line + 2, <<Lit(<<"1">>, line + 2)>>)>>),
                   Node("RETURN_STMT", line + 4,
                        <<Node("BINARY_OPERATOR", line + 4,
                               <<Ref(p, line + 4), expr>>)>>)>>)>>)

\* int main() { return <expr>; }
MainDecl(line, expr) ==
    Named("FUNCTION_DECL", <<"m","a","i","n">>, line,
          <<Node("COMPOUND_STMT", line,
                 <<Node("RETURN_STMT", line + 1, <<expr>>)>>)>>)

Unit(decls) == Named("TRANSLATION_UNIT", <<"a",".","c">>, 0, decls)

nN == <<"n">>
nFactorial == <<"f","a","c","t","o","r","i","a","l">>
nFib == <<"f","i","b">>
nDown == <<"d","o","w","n">>
nHold == <<"h","o","l","d">>
nGrow == <<"g","r","o","w">>
nDrop == <<"d","r","o","p">>
nSpin == <<"s","p","i","n">>
nWalk == <<"w","a","l","k">>
nHelp == <<"h","e","l","p">>

\* the example "Factorial (Recursive)": factorial(n) returns 1 when n <= 1
\* and n * factorial(n - 1) otherwise, and main calls factorial(num)
FactorialAst ==
    Unit(<<FuncDecl(nFactorial, nN, 3,
                    CallExpr(nFactorial, 7, <<BinOp(nN, <<"1">>, 7)>>)),
           MainDecl(10, CallExpr(nFactorial, 12, <<Ref(<<"n","u","m">>, 12)>>))>>)

\* fib(n) = fib(n - 1) + fib(n - 2)
FibAst ==
    Unit(<<FuncDecl(nFib, nN, 1,
                    Node("BINARY_OPERATOR", 5,
                         <<CallExpr(nFib, 5, <<BinOp(nN, <<"1">>, 5)>>),
                           CallExpr(nFib, 5, <<BinOp(nN, <<"2">>, 5)>>)>>))>>)

\* down(n - 2)
DownAst ==
    Unit(<<FuncDecl(nDown, <<"k">>, 2,
                    CallExpr(nDown, 6, <<BinOp(<<"k">>, <<"2">>, 6)>>))>>)

\* hold(n - 0): operand 0
HoldAst ==
    Unit(<<FuncDecl(nHold, nN, 2,
                    CallExpr(nHold, 6, <<BinOp(nN, <<"0">>, 6)>>))>>)

\* grow(n - -3): a negative operand
GrowAst ==
    Unit(<<FuncDecl(nGrow, nN, 2,
                    CallExpr(nGrow, 6, <<BinOp(nN, <<"-","3">>, 6)>>))>>)

\* drop(n - 40): an operand above every starting value
DropAst ==
    Unit(<<FuncDecl(nDrop, nN, 2,
                    CallExpr(nDrop, 6, <<BinOp(nN, <<"4","0">>, 6)>>))>>)

\* spin(): a recursive call without argument, in a function without parameter
SpinAst ==
    Unit(<<Named("FUNCTION_DECL", nSpin, 1,
                 <<Node("COMPOUND_STMT", 1, <<CallExpr(nSpin, 2, <<>>)>>)>>)>>)

\* walk(n): the argument is no binary operator
WalkAst ==
    Unit(<<FuncDecl(nWalk, nN, 2, CallExpr(nWalk, 6, <<Ref(nN, 6)>>))>>)

\* the example "Hello World": main alone, calling printf, which the tree
\* does not declare
MainOnlyAst ==
    Unit(<<Named("FUNCTION_DECL", <<"m","a","i","n">>, 3,
                 <<Node("COMPOUND_STMT", 3,
                        <<CallExpr(<<"p","r","i","n","t","f">>, 4,
                                   <<Leaf("STRING_LITERAL", <<"H","i">>, 4)>>),
                          Node("RETURN_STMT", 5, <<Lit(<<"0">>, 5)>>)>>)>>)>>)

\* help and main, help called from main, nothing recursive
MainHelpAst ==
    Unit(<<FuncDecl(nHelp, nN, 1, Lit(<<"2">>, 5)),
           MainDecl(8, CallExpr(nHelp, 9, <<Lit(<<"3">>, 9)>>))>>)

\* help alone: neither recursion nor main
HelpOnlyAst == Unit(<<FuncDecl(nHelp, nN, 1, Lit(<<"2">>, 5))>>)

\* no function at all
NoFunctionAst == Unit(<<Leaf("VAR_DECL", <<"x">>, 1)>>)

\* malformed, tolerated: a null entry after the recursive call, a node
\* without name and without children
TolerantAst ==
    Unit(<<Null,
           Named("FUNCTION_DECL", nWalk, 2,
                 <<Leaf("PARM_DECL", nN, 2),
                   Node("COMPOUND_STMT", 2,
                        <<CallExpr(nWalk, 3, <<BinOp(nN, <<"1">>, 3)>>),
                          Null,
                          [type |-> "NULL_STMT", line |-> 4]>>)>>)>>)

\* malformed: a null entry in the body of a recursive function, before the
\* recursive call
NullInBodyAst ==
    Unit(<<Named("FUNCTION_DECL", nWalk, 2,
                 <<Leaf("PARM_DECL", nN, 2),
                   Node("COMPOUND_STMT", 2,
                        <<Null,
                          CallExpr(nWalk, 3, <<BinOp(nN, <<"1">>, 3)>>)>>)>>)>>)

\* malformed: null as the second child of the recursive call
NullArgAst ==
    Unit(<<FuncDecl(nWalk, nN, 2, CallExpr(nWalk, 6, <<Null>>))>>)

\* malformed: a null entry directly under a function declaration
NullInDeclAst ==
    Unit(<<Named("FUNCTION_DECL", nHelp, 1, <<Leaf("PARM_DECL", nN, 1), Null>>)>>)

\* malformed: a null entry inside the binary operator argument
NullOperandAst ==
    Unit(<<FuncDecl(nWalk, nN, 2,
                    CallExpr(nWalk, 6,
                             <<Node("BINARY_OPERATOR", 6, <<Null, Lit(<<"1">>, 6)>>)>>))>>)

nPass == <<"p","a","s","s">>
nApply == <<"a","p","p","l","y">>
nHalf == <<"h","a","l","f">>
nMyFact == <<"M","y","F","a","c","t">>
nFibFact == <<"F","i","b","F","a","c","t">>
nGcd == <<"g","c","d">>
nInner == <<"i","n","n","e","r">>

\* help, down and walk: the first function is not recursive, the next two are
TwoRecAst ==
    Unit(<<FuncDecl(nHelp, nN, 1, Lit(<<"2">>, 5)),
           FuncDecl(nDown, <<"k">>, 8,
                    CallExpr(nDown, 12, <<BinOp(<<"k">>, <<"2">>, 12)>>)),
           FuncDecl(nWalk, nN, 15, CallExpr(nWalk, 19, <<Ref(nN, 19)>>))>>)

\* pass(n) returns apply(pass, n): pass hands its own name to apply; apply
\* calls through its parameter, (*f)(apply), a call whose first child holds
\* no name and whose argument list does; main calls pass
SelfArgAst ==
    Unit(<<FuncDecl(nApply, <<"f">>, 1,
                    Node("CALL_EXPR", 5,
                         <<Node("PAREN_EXPR", 5, <<Node("UNARY_OPERATOR", 5, <<>>)>>),
                           Ref(nApply, 5)>>)),
           FuncDecl(nPass, nN, 8,
                    CallExpr(nApply, 12, <<Ref(nPass, 12), Ref(nN, 12)>>)),
           MainDecl(15, CallExpr(nPass, 16, <<Lit(<<"3">>, 16)>>))>>)

\* half(n / 2): the binary operator of the argument carries its spelling
HalfAst ==
    Unit(<<FuncDecl(nHalf, nN, 2,
                    CallExpr(nHalf, 6,
                             <<Named("BINARY_OPERATOR", <<"/">>, 6,
                                     <<Ref(nN, 6), Lit(<<"2">>, 6)>>)>>))>>)

\* slide(n - k): a binary operator argument without integer literal
SlideAst ==
    Unit(<<FuncDecl(<<"s","l","i","d","e">>, nN, 2,
                    CallExpr(<<"s","l","i","d","e">>, 6,
                             <<Node("BINARY_OPERATOR", 6,
                                    <<Ref(nN, 6), Ref(<<"k">>, 6)>>)>>))>>)

nRun == <<"r","u","n">>

\* run(n) calls s.run(n - 1): the first child of the call is a member
\* reference named run above a declaration reference named s; main calls
\* run through a first child with a blank name above the reference
MemberCallAst ==
    Unit(<<FuncDecl(nRun, nN, 2,
                    Named("CALL_EXPR", nRun, 6,
                          <<Named("MEMBER_REF_EXPR", nRun, 6, <<Ref(<<"s">>, 6)>>),
                            BinOp(nN, <<"1">>, 6)>>)),
           MainDecl(10, Named("CALL_EXPR", nRun, 11,
                              <<Named("UNEXPOSED_EXPR", <<" ">>, 11, <<Ref(nRun, 11)>>),
                                Lit(<<"4">>, 11)>>))>>)

\* a prototype of walk, then help, then the definition of walk(n), which
\* calls walk(n - 1)
ProtoFirstAst ==
    Unit(<<Named("FUNCTION_DECL", nWalk, 1, <<Leaf("PARM_DECL", <<"m">>, 1)>>),
           FuncDecl(nHelp, nN, 3, Lit(<<"2">>, 7)),
           FuncDecl(nWalk, nN, 10,
                    CallExpr(nWalk, 14, <<BinOp(nN, <<"1">>, 14)>>))>>)

\* the definition of walk(n), which calls walk(n - 1), then main, which
\* calls walk, then a declaration of walk again
ProtoLastAst ==
    Unit(<<FuncDecl(nWalk, nN, 1, CallExpr(nWalk, 5, <<BinOp(nN, <<"1">>, 5)>>)),
           MainDecl(8, CallExpr(nWalk, 9, <<Lit(<<"3">>, 9)>>)),
           Named("FUNCTION_DECL", nWalk, 12, <<Leaf("PARM_DECL", <<"m">>, 12)>>)>>)

\* MyFact(n - 40): a name that holds "fact" in another case, and arguments
\* that go below zero
MyFactAst ==
    Unit(<<FuncDecl(nMyFact, nN, 2,
                    CallExpr(nMyFact, 6, <<BinOp(nN, <<"4","0">>, 6)>>))>>)

\* FibFact(n - 1): a name that holds both "fib" and "fact"
FibFactAst ==
    Unit(<<FuncDecl(nFibFact, nN, 2,
                    CallExpr(nFibFact, 6, <<BinOp(nN, <<"1">>, 6)>>))>>)

\* main calls help on two lines, twice on the first of them, and printf,
\* which the tree does not declare
TwiceAst ==
    Unit(<<FuncDecl(nHelp, nN, 1, Lit(<<"2">>, 5)),
           Named("FUNCTION_DECL", <<"m","a","i","n">>, 8,
                 <<Node("COMPOUND_STMT", 8,
                        <<Node("BINARY_OPERATOR", 9,
                               <<CallExpr(nHelp, 9, <<Lit(<<"3">>, 9)>>),
                                 CallExpr(nHelp, 9, <<Lit(<<"4">>, 9)>>)>>),
                          CallExpr(nHelp, 10, <<Lit(<<"5">>, 10)>>),
                          CallExpr(<<"p","r","i","n","t","f">>, 11, <<>>)>>)>>)>>)

\* gcd(a, b) with an unnamed third parameter, calling gcd(b, a - 3) and,
\* before it, declaring inner(x) in its body; a prototype without name; a
\* declaration with the empty name
NestedAst ==
    Unit(<<[type |-> "FUNCTION_DECL", line |-> 1,
            children |-> <<Leaf("PARM_DECL", <<"u">>, 1)>>],
           Named("FUNCTION_DECL", <<>>, 2, <<Leaf("PARM_DECL", <<"v">>, 2)>>),
           Named("FUNCTION_DECL", nGcd, 3,
                 <<Leaf("PARM_DECL", <<"a">>, 3),
                   Leaf("PARM_DECL", <<"b">>, 3),
                   [type |-> "PARM_DECL", line |-> 3],
                   Node("COMPOUND_STMT", 3,
                        <<Named("FUNCTION_DECL", nInner, 4,
                                <<Leaf("PARM_DECL", <<"x">>, 4),
                                  Node("COMPOUND_STMT", 4, <<>>)>>),
                          Node("RETURN_STMT", 5,
                               <<CallExpr(nGcd, 5,
                                          <<Ref(<<"b">>, 5),
                                            BinOp(<<"a">>, <<"3">>, 5)>>)>>)>>)>>)>>)

Asts ==
    {Null, FactorialAst, FibAst, DownAst, HoldAst, GrowAst, DropAst, SpinAst,
     WalkAst, MainOnlyAst, MainHelpAst, HelpOnlyAst, NoFunctionAst, TolerantAst,
     NullInBodyAst, NullArgAst, NullInDeclAst, NullOperandAst,
     TwoRecAst, SelfArgAst, HalfAst, SlideAst, MyFactAst, FibFactAst, TwiceAst,
     NestedAst, MemberCallAst, ProtoFirstAst, ProtoLastAst}

\* the largest maxDepth tried, besides the 30 of the truncation scenario
MaxDepthInput == 23

\* the largest argument for which the product of line 150 is computed
MaxFactorialArg == 11

DepthInputs == (0 .. MaxDepthInput) \cup {30}

\* whether the closed form of tree a for starting value d is within range
InRange(a, d) ==
    LET r == getRecursiveInfo(a)
    IN  (r.ok /\ ~IsNull(r.val) /\ includes(toLowerCase(r.val.name), <<"f","a","c","t">>))
            => d <= MaxFactorialArg

Inputs == {in \in Asts \X DepthInputs : InRange(in[1], in[2])}

(***************************************************************************)
(* StackVisualizer (src/unnamed/part_003): the component keeps             *)
(* currentStep, isPlaying and maxDepth (the start-value input), reads      *)
(* astData from the context and derives the step list from both.  Time is  *)
(* not modelled: playSpeed only sets the delay of the timer.               *)
(***************************************************************************)

\* line 13: the start value the component is mounted with
InitialStartValue == 5

\* lines 22 and 148: the largest start value
LargestStartValue == 20

\* the start-value state: '' (line 139) or a number (line 142)
Blank == [blank |-> TRUE, value |-> 0]

Typed(n) == [blank |-> FALSE, value |-> n]

\* String(maxDepth), as parseInt(maxDepth) of line 146 reads it
TextOf(m) == IF m.blank THEN <<>> ELSE NumberToString(m.value)

\* line 22
ClampedDepth(m) ==
    IF m.blank THEN 1
    ELSE IF m.value < 1 THEN 1
    ELSE IF m.value > LargestStartValue THEN LargestStartValue
    ELSE m.value

\* stackSimulator.js lines 258-306: the number of frames simulateCall pushes
\* from the call (funcName, argValue, depth, stack), for a stack of depth
\* frames and the depth bound limit
FramesFrom(table, funcName, step, argValue, depth, limit) ==
    LET func == Lookup(table, funcName)
        frames[a \in Int, d \in Nat] ==
            IF d > limit \/ d > MaxStack \/ IsNull(func) THEN 0
            ELSE 1 + (IF func.isRecursive /\ ~IsBaseCase(a)
                      THEN frames[NextVal(a, step), d + 1]
                      ELSE 0)
    IN  frames[argValue, depth]

\* the trees the context hands to the component
ViewAsts == {Null, MainOnlyAst, FactorialAst, HalfAst, DownAst}

\* stackSimulator.js lines 256-346: steps.length for the analysis a of
\* lines 216-254, a push and a pop for each frame
StepCount(a, depth) ==
    IF Truthy(a.recursiveFunc)
    THEN 2 * FramesFrom(a.functions, a.recursiveFunc, a.stepInfo,
                        InitialVal(depth), 0, depth)
    ELSE Len(MainFallback(a.functions))

\* lines 20-24: useMemo keeps steps for astData and maxDepth; the table
\* holds steps.length for each tree and each depth of line 22, with the
\* analysis of a tree made once (none of the trees makes it throw)
MemoSteps ==
    [t \in ViewAsts |->
        IF IsNull(t) THEN [d \in 1 .. LargestStartValue |-> 0]
        ELSE CHOOSE row \in {[d \in 1 .. LargestStartValue |-> StepCount(a, d)] :
                                 a \in {Analysis(t).val}} : TRUE]

\* lines 15-17: useMemo keeps recursiveInfo for astData
MemoInfo == [t \in ViewAsts |-> getRecursiveInfo(t).val]

\* lines 20-24: steps.length for the state v of the component
StepsLength(v) ==
    IF IsNull(v.astData) THEN 0
    ELSE MemoSteps[v.astData][ClampedDepth(v.maxDepth)]

\* lines 76-111: the controls are rendered for a tree with a recursive function
ControlsShown(v) ==
    /\ ~IsNull(v.astData)
    /\ ~IsNull(MemoInfo[v.astData])

\* a faulty variant of AutoPlayEffect, for comparison: the effect never clears isPlaying
AutoPlayEffectNoStop(v, len) ==
    IF ~v.isPlaying \/ v.currentStep >= len - 1
    THEN [v EXCEPT !.timer = FALSE]
    ELSE [v EXCEPT !.timer = TRUE]

\* lines 33-44: the effect that runs after a render, for len = steps.length;
\* its cleanup has cleared the timer of the render before
AutoPlayEffect(v, len) ==
    IF ~v.isPlaying \/ v.currentStep >= len - 1
    THEN [v EXCEPT !.isPlaying = FALSE, !.timer = FALSE]
    ELSE [v EXCEPT !.timer = TRUE]

\* the state after the render and the effects that follow a state change
Rendered(v) == AutoPlayEffect(v, StepsLength(v))

\* lines 47-50: the effect of a change of maxDepth from m to the one of v
StartValueEffect(v, m) ==
    IF v.maxDepth = m THEN v
    ELSE [v EXCEPT !.currentStep = 0, !.isPlaying = FALSE]

\* a faulty variant of Advance, for comparison: the timer skips a step
AdvanceTwo(currentStep) == currentStep + 2

\* lines 39 and 54: prev => prev + 1
Advance(currentStep) == currentStep + 1

\* lines 135-143: onChange of the start-value input for the text val
StartValueTyped(m, val) ==
    IF val = <<>> THEN Blank
    ELSE IF parseInt(val).isNaN THEN m
    ELSE Typed(parseInt(val).value)

\* lines 145-150: onBlur of the start-value input
StartValueBlurred(m) ==
    LET p == parseInt(TextOf(m))
    IN  IF p.isNaN \/ p.value < 1 THEN Typed(1)
        ELSE IF p.value > LargestStartValue THEN Typed(LargestStartValue)
        ELSE Typed(p.value)

\* lines 10-13: the state of a component mounted on the tree astData; the
\* last two fields record whether the user still acts on the component and
\* whether auto-play was on when they stopped
Mounted(astData) ==
    [astData     |-> astData,
     currentStep |-> 0,
     isPlaying   |-> FALSE,
     maxDepth    |-> Typed(InitialStartValue),
     timer       |-> FALSE,
     attended    |-> TRUE,
     leftPlaying |-> FALSE]

InitialView == Mounted(Null)

\* the largest number typed into the start-value input, besides 25
MaxTyped == 3

\* the texts typed into the start-value input
TypedTexts ==
    {<<>>, <<"2","5">>, <<"-","3">>} \cup {NumberToString(n) : n \in 0 .. MaxTyped}

(***************************************************************************)
(* ASTProvider (src/unnamed/part_004).  A source text is a short string    *)
(* that stands for it; the backend is not part of the frontend, so its     *)
(* replies are inputs: any reply it can give for the code it was sent.     *)
(***************************************************************************)

\* codeExamples.js line 103: DEFAULT_CODE, the example "Hello World"
DefaultCode == <<"h">>

\* the example "Factorial (Recursive)"
FactorialCode == <<"f">>

\* a text typed into the editor, and one of white space only
EditedCode == <<"e">>

BlankCode == <<" ">>

ExampleCodes == {DefaultCode, FactorialCode}

Codes == {DefaultCode, FactorialCode, EditedCode, BlankCode}

\* the tree the backend builds for a source text
TreeFor(code) ==
    IF code = FactorialCode THEN FactorialAst
    ELSE IF code = EditedCode THEN HalfAst
    ELSE MainOnlyAst

\* messages of the errors list of a reply
HeaderMessage ==
    [message |-> <<"a",".","h"," ","f","i","l","e"," ","n","o","t"," ",
                   "f","o","u","n","d">>]

SyntaxMessage == [message |-> <<"e","x","p","e","c","t","e","d"," ",";">>]

\* the replies of /api/parse for a source text
ParseReplies(code) ==
    {[success |-> TRUE, ast |-> TreeFor(code), symbolTable |-> st,
      diagnostics |-> dg, errors |-> er] :
        st \in {<<>>, <<[symbols |-> code]>>},
        dg \in {<<>>, <<[unused |-> code]>>},
        er \in {<<>>, <<HeaderMessage>>, <<SyntaxMessage, HeaderMessage>>}}
    \cup {[success |-> FALSE, ast |-> Null, symbolTable |-> <<>>,
           diagnostics |-> <<>>, errors |-> <<SyntaxMessage>>]}

\* the replies of /api/cfg for a source text
CfgReplies(code) ==
    {[success |-> TRUE, cfg |-> [blocks |-> code]],
     [success |-> FALSE, cfg |-> Null]}

\* no request in flight
NoRequest == [sent |-> FALSE]

\* lines 13-19
InitialProvider ==
    [sourceCode  |-> DefaultCode,
     astData     |-> Null,
     cfgData     |-> Null,
     symbolTable |-> <<>>,
     diagnostics |-> <<>>,
     isLoading   |-> FALSE,
     error       |-> Null,
     request     |-> NoRequest,
     cleared     |-> FALSE]

\* lines 49-56: whether an error of a reply is a header error
IsHeaderError(e) ==
    \/ includes(e.message, <<"f","i","l","e"," ","n","o","t"," ","f","o","u","n","d">>)
    \/ includes(e.message, <<"n","o","t"," ","f","o","u","n","d">>)

\* Array.prototype.filter
RECURSIVE Filter(_, _)
Filter(s, header) ==
    IF s = <<>> THEN <<>>
    ELSE IF IsHeaderError(Head(s)) = header
         THEN <<Head(s)>> \o Filter(Tail(s), header)
         ELSE Filter(Tail(s), header)

\* lines 46-73: the error state after a successful reply
ErrorAfter(reply) ==
    IF Filter(reply.errors, FALSE) # <<>>
    THEN [type |-> "error", messages |-> Filter(reply.errors, FALSE)]
    ELSE IF Filter(reply.errors, TRUE) # <<>>
    THEN [type |-> "warning", messages |-> Filter(reply.errors, TRUE)]
    ELSE Null

\* lines 108-113 and 118-123: the assignments of resetCode and loadExample
Cleared(p, code) ==
    [p EXCEPT !.sourceCode  = code,
              !.astData     = Null,
              !.cfgData     = Null,
              !.symbolTable = <<>>,
              !.diagnostics = <<>>,
              !.error       = Null]

\* lines 39-89: the state after both replies arrived
Resolved(p, astReply, cfgReply) ==
    LET a == IF astReply.success
             THEN [p EXCEPT !.astData     = astReply.ast,
                            !.symbolTable = astReply.symbolTable,
                            !.diagnostics = astReply.diagnostics,
                            !.error       = ErrorAfter(astReply)]
             ELSE [p EXCEPT !.error       = [type |-> "error",
                                             messages |-> astReply.errors],
                            !.astData     = Null,
                            !.symbolTable = <<>>,
                            !.diagnostics = <<>>]
    IN  [a EXCEPT !.cfgData = IF cfgReply.success THEN cfgReply.cfg ELSE Null]

\* lines 91-101: the state after a request failed
Rejected(p) ==
    [p EXCEPT !.error       = [type |-> "error",
                               messages |-> <<[message |-> <<"N","e","t">>]>>],
              !.astData     = Null,
              !.cfgData     = Null,
              !.symbolTable = <<>>,
              !.diagnostics = <<>>]

\* lines 14-17: nothing of the analysis of a source text is held
AnalysisEmpty(p) ==
    /\ IsNull(p.astData)
    /\ IsNull(p.cfgData)
    /\ p.symbolTable = <<>>
    /\ p.diagnostics = <<>>

(***************************************************************************)
(* The state machine.  A consumer asks getRecursiveInfo and then           *)
(* simulateRecursion about a tree, as StackVisualizer does on a render     *)
(* (src/unnamed/part_003 lines 15-24); simulateCall runs one activation    *)
(* step at a time.  A behaviour of Spec is one such pair of calls on one   *)
(* input; SpecRepeat below chains calls.                                   *)
(***************************************************************************)

\* a variable that the current call has not assigned yet
Pending == [pending |-> TRUE]

\* no call remembered
NoCall == [called |-> FALSE, between |-> FALSE]

Fresh ==
    /\ pc = "idle"
    /\ functions = EmptyTable
    /\ recursiveFunc = NoName
    /\ stepInfo = DefaultStep
    /\ calls = <<>>
    /\ trace = <<>>
    /\ info = Pending

Init ==
    /\ \E in \in Inputs : ast = in[1] /\ maxDepth = in[2]
    /\ Fresh
    /\ first = NoCall
    /\ provider = InitialProvider
    /\ view = InitialView

\* getRecursiveInfo(ast)
GetRecursiveInfo ==
    /\ pc = "idle"
    /\ info' = getRecursiveInfo(ast)
    /\ pc' = "described"
    /\ UNCHANGED <<ast, maxDepth, functions, recursiveFunc, stepInfo, calls,
                   trace, first, provider, view>>

\* simulateRecursion(ast, maxDepth) up to its first call of simulateCall,
\* or to its return when it makes none
SimulateRecursion ==
    /\ pc = "described"
    /\ UNCHANGED <<ast, maxDepth, info, first, provider, view>>
    /\ IF IsNull(ast)
       THEN /\ trace' = <<>>
            /\ pc' = "returned"
            /\ UNCHANGED <<functions, recursiveFunc, stepInfo, calls>>
       ELSE LET analysed == Analysis(ast)
            IN  IF ~analysed.ok
                THEN /\ pc' = "threw"
                     /\ UNCHANGED <<functions, recursiveFunc, stepInfo, calls, trace>>
                ELSE /\ functions' = analysed.val.functions
                     /\ recursiveFunc' = analysed.val.recursiveFunc
                     /\ stepInfo' = analysed.val.stepInfo
                     /\ IF Truthy(analysed.val.recursiveFunc)
                        THEN /\ trace' = NewTrace
                             /\ calls' = <<Activation(analysed.val.recursiveFunc,
                                                      InitialVal(maxDepth), 0, <<>>)>>
                             /\ pc' = "simulating"
                        ELSE /\ trace' = NewTrace \o MainFallback(analysed.val.functions)
                             /\ calls' = <<>>
                             /\ pc' = "returned"

\* the live activations after the innermost one returned
Returned == SubSeq(calls, 1, Len(calls) - 1)

\* simulateCall from its entry to its recursive call, or to line 308 when
\* it makes none (lines 258-306)
SimulateCallEnter ==
    /\ pc = "simulating"
    /\ calls # <<>>
    /\ calls[Len(calls)].at = "entry"
    /\ UNCHANGED <<ast, maxDepth, functions, recursiveFunc, stepInfo, info, first, provider, view>>
    /\ LET a    == calls[Len(calls)]
           func == Lookup(functions, a.funcName)
       IN  IF Halted(a.depth, a.stack) \/ IsNull(func)
           THEN /\ calls' = Returned
                /\ trace' = trace
                /\ pc' = IF Returned = <<>> THEN "returned" ELSE pc
           ELSE LET newFrame == NewFrame(func, a.funcName, a.argValue, a.depth)
                    here == [a EXCEPT !.at = "body", !.frame = newFrame]
                IN  /\ trace' = Append(trace,
                                    PushEvent(newFrame, Append(a.stack, newFrame)))
                    /\ calls' =
                         IF func.isRecursive /\ ~IsBaseCase(a.argValue)
                         THEN Append(Append(Returned, here), RecursiveCall(a, newFrame))
                         ELSE Append(Returned, here)
                    /\ pc' = pc

\* a faulty variant of ExitEvents, for comparison: a base case returns before its pop is recorded
ExitEventsSkipBase(a) ==
    IF IsBaseCase(a.argValue) THEN <<>>
    ELSE <<PopEvent(a.frame, IsBaseCase(a.argValue), a.stack)>>

\* lines 308-315: what activation a adds to the trace when it completes
ExitEvents(a) == <<PopEvent(a.frame, IsBaseCase(a.argValue), a.stack)>>

\* simulateCall from line 308 to its return (lines 308-316)
SimulateCallExit ==
    /\ pc = "simulating"
    /\ calls # <<>>
    /\ calls[Len(calls)].at = "body"
    /\ trace' = trace \o ExitEvents(calls[Len(calls)])
    /\ calls' = Returned
    /\ pc' = IF Returned = <<>> THEN "returned" ELSE pc
    /\ UNCHANGED <<ast, maxDepth, functions, recursiveFunc, stepInfo, info, first, provider, view>>

Next ==
    \/ GetRecursiveInfo
    \/ SimulateRecursion
    \/ SimulateCallEnter
    \/ SimulateCallExit

Spec == Init /\ [][Next]_vars

(***************************************************************************)
(* Repeated calls in one session: a completed call may be remembered, and  *)
(* the next call starts with whatever the earlier one left behind.         *)
(***************************************************************************)

\* the largest maxDepth of the repeated calls
MaxRepeatDepth == 2

RepeatInputs == {FactorialAst, MainOnlyAst, NullArgAst} \X (1 .. MaxRepeatDepth)

InitRepeat ==
    /\ \E in \in RepeatInputs : ast = in[1] /\ maxDepth = in[2]
    /\ Fresh
    /\ first = NoCall
    /\ provider = InitialProvider
    /\ view = InitialView

Remember ==
    /\ pc \in {"returned", "threw"}
    /\ first = NoCall
    /\ first' = [called |-> TRUE, between |-> FALSE, ast |-> ast,
                 maxDepth |-> maxDepth, threw |-> (pc = "threw"), trace |-> trace]
    /\ UNCHANGED <<ast, maxDepth, pc, functions, recursiveFunc, stepInfo, calls,
                   trace, info, provider, view>>

CallAgain ==
    /\ pc \in {"returned", "threw"}
    /\ \E in \in RepeatInputs :
          /\ ast' = in[1]
          /\ maxDepth' = in[2]
          /\ first' = IF first.called /\ <<first.ast, first.maxDepth>> # in
                      THEN [first EXCEPT !.between = TRUE]
                      ELSE first
    /\ pc' = "idle"
    /\ UNCHANGED <<functions, recursiveFunc, stepInfo, calls, trace, info, provider, view>>

NextRepeat ==
    \/ GetRecursiveInfo
    \/ SimulateRecursion
    \/ SimulateCallEnter
    \/ SimulateCallExit
    \/ Remember
    \/ CallAgain

SpecRepeat == InitRepeat /\ [][NextRepeat]_vars

(***************************************************************************)
(* The StackVisualizer as a state machine: one action for each handler,    *)
(* for the timer and for a new astData from the context, each followed by  *)
(* the render and the effects it causes.                                   *)
(***************************************************************************)

engine == <<ast, maxDepth, pc, functions, recursiveFunc, stepInfo, calls, trace,
            info, first>>

\* no call of the engine is traced
EngineIdle ==
    /\ ast = Null
    /\ maxDepth = InitialStartValue
    /\ Fresh
    /\ first = NoCall

InitView ==
    /\ EngineIdle
    /\ provider = InitialProvider
    /\ \E t \in ViewAsts : view = Mounted(t)

\* lines 52-56, behind the button of line 254
HandleStepForward ==
    /\ view.attended
    /\ ControlsShown(view)
    /\ view.currentStep < StepsLength(view) - 1
    /\ view' = Rendered([view EXCEPT !.currentStep = Advance(@)])
    /\ UNCHANGED <<engine, provider>>

\* lines 58-62, behind the button of line 240
HandleStepBack ==
    /\ view.attended
    /\ ControlsShown(view)
    /\ view.currentStep # 0
    /\ view.currentStep > 0
    /\ view' = Rendered([view EXCEPT !.currentStep = @ - 1])
    /\ UNCHANGED <<engine, provider>>

\* lines 64-67
HandleReset ==
    /\ view.attended
    /\ ControlsShown(view)
    /\ view' = Rendered([view EXCEPT !.currentStep = 0, !.isPlaying = FALSE])
    /\ UNCHANGED <<engine, provider>>

\* lines 69-74
HandlePlayPause ==
    /\ view.attended
    /\ ControlsShown(view)
    /\ view' = Rendered([view EXCEPT
                           !.currentStep = IF @ >= StepsLength(view) - 1 THEN 0 ELSE @,
                           !.isPlaying = ~@])
    /\ UNCHANGED <<engine, provider>>

\* lines 38-40: the timer of the auto-play effect fires
TimerTick ==
    /\ view.timer
    /\ view' = Rendered([view EXCEPT !.currentStep = Advance(@)])
    /\ UNCHANGED <<engine, provider>>

\* lines 135-143 and the effect of lines 47-50
StartValueChange ==
    /\ view.attended
    /\ ControlsShown(view)
    /\ \E val \in TypedTexts :
          view' = Rendered(StartValueEffect(
                      [view EXCEPT !.maxDepth = StartValueTyped(@, val)],
                      view.maxDepth))
    /\ UNCHANGED <<engine, provider>>

\* lines 145-150 and the effect of lines 47-50
StartValueBlur ==
    /\ view.attended
    /\ ControlsShown(view)
    /\ view' = Rendered(StartValueEffect(
                   [view EXCEPT !.maxDepth = StartValueBlurred(@)],
                   view.maxDepth))
    /\ UNCHANGED <<engine, provider>>

\* line 9: the context holds another astData (a parse request completed,
\* or the editor was reset or given an example); lines 15-24 recompute
\* recursiveInfo and steps, and no state of the component is assigned
AstReplaced ==
    /\ view.attended
    /\ \E t \in ViewAsts \ {view.astData} :
          view' = Rendered([view EXCEPT !.astData = t])
    /\ UNCHANGED <<engine, provider>>

\* the user stops acting on the page
UserLeaves ==
    /\ view.attended
    /\ view' = [view EXCEPT !.attended = FALSE, !.leftPlaying = view.isPlaying]
    /\ UNCHANGED <<engine, provider>>

NextView ==
    \/ HandleStepForward
    \/ HandleStepBack
    \/ HandleReset
    \/ HandlePlayPause
    \/ TimerTick
    \/ StartValueChange
    \/ StartValueBlur
    \/ AstReplaced
    \/ UserLeaves

SpecView == InitView /\ [][NextView]_vars

\* a timer that stays set fires: setTimeout runs its callback unless the
\* cleanup of the effect clears it
SpecAutoPlay == SpecView /\ WF_vars(TimerTick)

(***************************************************************************)
(* The ASTProvider as a state machine: the editor and the buttons of       *)
(* CodeEditor call its functions; parseCode is split at its await.         *)
(***************************************************************************)

InitProvider ==
    /\ EngineIdle
    /\ provider = InitialProvider
    /\ view = InitialView

\* CodeEditor.jsx lines 27-31: the editor text changes
SetSourceCode ==
    /\ \E code \in Codes \ {provider.sourceCode} :
          provider' = [provider EXCEPT !.sourceCode = code]
    /\ UNCHANGED <<engine, view>>

\* lines 22-36, behind the button of CodeEditor.jsx lines 127-131, which
\* is disabled while isLoading: parseCode up to its await
ParseCode ==
    /\ ~provider.isLoading
    /\ trim(provider.sourceCode) # <<>>
    /\ provider' = [provider EXCEPT
                      !.isLoading = TRUE,
                      !.error     = Null,
                      !.request   = [sent |-> TRUE, code |-> provider.sourceCode,
                                     cleared |-> FALSE]]
    /\ UNCHANGED <<engine, view>>

\* lines 38-104: both replies arrived, or a request failed; the state
\* remembers whether the editor was cleared after the request was sent
ParseSettled ==
    /\ provider.request.sent
    /\ \E outcome \in {Rejected(provider)}
                      \cup {Resolved(provider, a, c) :
                               a \in ParseReplies(provider.request.code),
                               c \in CfgReplies(provider.request.code)} :
          provider' = [outcome EXCEPT !.isLoading = FALSE,
                                      !.request   = NoRequest,
                                      !.cleared   = provider.request.cleared]
    /\ UNCHANGED <<engine, view>>

\* the request in flight, marked as sent before the editor was cleared
Overtaken(request) ==
    IF request.sent THEN [request EXCEPT !.cleared = TRUE] ELSE request

\* lines 107-115
ResetCode ==
    /\ provider' = [Cleared(provider, DefaultCode) EXCEPT
                      !.request = Overtaken(@), !.cleared = TRUE]
    /\ UNCHANGED <<engine, view>>

\* lines 117-125, called from CodeEditor.jsx lines 49-52
LoadExample ==
    /\ \E code \in ExampleCodes :
          provider' = [Cleared(provider, code) EXCEPT
                         !.request = Overtaken(@), !.cleared = TRUE]
    /\ UNCHANGED <<engine, view>>

NextProvider ==
    \/ SetSourceCode
    \/ ParseCode
    \/ ParseSettled
    \/ ResetCode
    \/ LoadExample

SpecProvider == InitProvider /\ [][NextProvider]_vars

(***************************************************************************)
(* Properties                                                              *)
(***************************************************************************)

\* the trace is being built by simulateCall, or has been returned
HasTrace == pc \in {"simulating", "returned"}

\* the current call selected a self-recursive function
Simulated == pc \in {"simulating", "returned"} /\ ~IsNull(ast) /\ Truthy(recursiveFunc)

Pushes(t) == Cardinality({i \in DOMAIN t : t[i].action = "push"})

Pops(t) == Cardinality({i \in DOMAIN t : t[i].action = "pop"})

\* the frames an event shows: its own frame and those of its snapshot
FramesOf(e) == {e.frame} \cup {e.fullStack[i] : i \in DOMAIN e.fullStack}

\* the argValue of a frame; a frame without the property has undefined
ArgValueOf(frame) ==
    IF "argValue" \in DOMAIN frame THEN frame.argValue ELSE <<"undefined">>

\* the argValue of a frame as StackVisualizer reads it
\* (frame.argValue !== undefined ? frame.argValue : '')
ArgValueShown(frame) ==
    IF "argValue" \in DOMAIN frame THEN frame.argValue ELSE <<>>

\* what identifies a frame occurrence
FrameKey(frame, strict) ==
    <<frame.name, frame.depth,
      IF strict THEN ArgValueOf(frame) ELSE ArgValueShown(frame)>>

RECURSIVE Replay(_, _, _, _)
\* the frames left open by events i.. of t on top of the open ones, each
\* pop closing the frame opened last; ok is FALSE when a pop finds no open
\* frame or another frame than its own on top
Replay(t, i, open, strict) ==
    IF i > Len(t) THEN [ok |-> TRUE, open |-> open]
    ELSE IF t[i].action = "push"
    THEN Replay(t, i + 1, Append(open, FrameKey(t[i].frame, strict)), strict)
    ELSE IF open # <<>> /\ open[Len(open)] = FrameKey(t[i].frame, strict)
    THEN Replay(t, i + 1, SubSeq(open, 1, Len(open) - 1), strict)
    ELSE [ok |-> FALSE, open |-> open]

\* in every prefix of t there are at most as many pops as pushes
NeverNegative(t) ==
    \A k \in 0 .. Len(t) : Pops(SubSeq(t, 1, k)) <= Pushes(SubSeq(t, 1, k))

WellNested(strict) ==
    HasTrace =>
        /\ NeverNegative(trace)
        /\ Replay(trace, 1, <<>>, strict).ok
        /\ pc = "returned" => Replay(trace, 1, <<>>, strict).open = <<>>

\* C1: for any tree and any maxDepth, the returned trace holds as many pop
\* events as push events.
C1_Balanced == pc = "returned" => Pops(trace) = Pushes(trace)

\* a returned trace of a simulated recursion with several frames
C1_Witness == pc = "returned" /\ Simulated /\ Pushes(trace) >= 3

\* C2 as stated: the trace is well nested, the pop of a frame carrying the
\* same name, depth and argValue as its push.
C2_WellNestedStrict == WellNested(TRUE)

\* C2, amended: the trace is well nested, the pop of a frame carrying the
\* same name, depth and argValue as its push, where a frame without
\* argValue counts as one with the empty argValue (as the visualizer reads
\* it): pops never outnumber pushes in a prefix, every pop closes the frame
\* pushed last, and the returned trace leaves no frame open.
C2_WellNested == WellNested(FALSE)

\* a returned trace with frames nested three deep
C2_Witness ==
    /\ pc = "returned"
    /\ Simulated
    /\ \E i \in DOMAIN trace : trace[i].action = "pop" /\ trace[i].frame.depth >= 2

\* C3: no frame of any event, its own or one of its snapshot, is deeper
\* than maxDepth.
C3_DepthBound ==
    HasTrace => \A i \in DOMAIN trace : \A f \in FramesOf(trace[i]) : f.depth <= maxDepth

\* a simulated recursion that went as deep as its arguments allow
C3_Witness ==
    /\ pc = "returned"
    /\ Simulated
    /\ maxDepth >= 5
    /\ \E i \in DOMAIN trace : trace[i].frame.depth = maxDepth - 1

\* what is left of the simulation: every step adds an event or ends an
\* activation, and the stack bound allows 2 * (MaxStack + 1) events
Measure == 2 * (2 * (MaxStack + 1) - Len(trace)) + Len(calls)

\* C4: simulateRecursion terminates with a finite trace: every step of the
\* simulation decreases a natural number, whatever the tree, the inferred
\* operand and maxDepth.
C4_Terminates ==
    [][pc = "simulating" => (Measure' < Measure /\ Measure' >= 0)]_vars

\* a completed simulation whose inferred operand is 0 or negative and whose
\* starting value is beyond the stack bound
C4_Witness ==
    /\ pc = "returned"
    /\ Simulated
    /\ stepInfo.value <= 0
    /\ maxDepth > MaxStack + 1

\* C5: a call with the tree and maxDepth of a remembered earlier call ends
\* as that call did, with the same event sequence, whatever calls came in
\* between.
C5_Deterministic ==
    (first.called /\ first.ast = ast /\ first.maxDepth = maxDepth) =>
        /\ pc = "returned" => (~first.threw /\ trace = first.trace)
        /\ pc = "threw" => first.threw

\* a simulated recursion repeated after a call on another input
C5_Witness ==
    /\ pc = "returned"
    /\ Simulated
    /\ first.called /\ first.ast = ast /\ first.maxDepth = maxDepth
    /\ first.between

RECURSIVE NodesOf(_)
\* the nodes of a tree, null entries left out
NodesOf(node) ==
    IF IsNull(node) THEN {}
    ELSE {node} \cup
         UNION {NodesOf(ChildrenOf(node)[i]) : i \in DOMAIN ChildrenOf(node)}

\* the tree holds a declaration of a function called name
DeclaresFunction(tree, name) ==
    \E n \in NodesOf(tree) : TypeOf(n) = "FUNCTION_DECL" /\ NameOf(n) = name

\* C6: for a tree with a function main and no self-recursive function the
\* trace is a push of main at depth 0 with snapshot [main], then a pop of
\* main with return value 0 and an empty snapshot; with neither a
\* self-recursive function nor main the trace is empty.
C6_MainFallback ==
    (pc = "returned" /\ ~IsNull(ast) /\ ~Truthy(recursiveFunc)) =>
        IF DeclaresFunction(ast, <<"m","a","i","n">>)
        THEN /\ Len(trace) = 2
             /\ trace[1].action = "push"
             /\ trace[1].frame.name = <<"m","a","i","n">>
             /\ trace[1].frame.depth = 0
             /\ trace[1].stack = << <<"m","a","i","n">> >>
             /\ Len(trace[1].fullStack) = 1
             /\ trace[1].fullStack[1].name = <<"m","a","i","n">>
             /\ trace[2].action = "pop"
             /\ trace[2].frame.name = <<"m","a","i","n">>
             /\ trace[2].returnValue = 0
             /\ trace[2].stack = <<>>
             /\ trace[2].fullStack = <<>>
        ELSE trace = <<>>

\* a returned call on a tree with main, another function and no recursion
C6_Witness ==
    /\ pc = "returned"
    /\ ~IsNull(ast)
    /\ ~Truthy(recursiveFunc)
    /\ DeclaresFunction(ast, <<"m","a","i","n">>)
    /\ Len(functions.keys) = 2

\* C7: for a null tree getRecursiveInfo returns null and simulateRecursion
\* returns an empty trace, and neither raises.
C7_NullAst ==
    IsNull(ast) =>
        /\ pc # "threw"
        /\ pc # "idle" => (info.ok /\ IsNull(info.val))
        /\ pc = "returned" => trace = <<>>

\* both calls have returned for the null tree
C7_Witness == IsNull(ast) /\ pc = "returned"

\* the events of t with the given action
EventsOf(t, action) == SelectSeq(t, LAMBDA e : e.action = action)

\* the argument values of the events of t with the given action, in order
ArgsOf(t, action) ==
    [i \in DOMAIN EventsOf(t, action) |-> EventsOf(t, action)[i].frame.argValue]

\* the return values reported on the pop events of t, in order
PopReturns(t) ==
    [i \in DOMAIN EventsOf(t, "pop") |-> EventsOf(t, "pop")[i].returnValue]

\* the call simulateRecursion(FactorialAst, 5) has returned
FactorialScenario == pc = "returned" /\ ast = FactorialAst /\ maxDepth = 5

\* the shape of the factorial scenario: five pushes, then five pops
FactorialShape ==
    /\ Len(trace) = 10
    /\ \A i \in 1 .. 5 : trace[i].action = "push" /\ trace[i + 5].action = "pop"
    /\ ArgsOf(trace, "push") = <<5, 4, 3, 2, 1>>
    /\ ArgsOf(trace, "pop") = <<1, 2, 3, 4, 5>>
    /\ info = Ok([name |-> nFactorial, params |-> <<nN>>, line |-> 3])

\* C8 as stated: in the factorial scenario the pops report the six return
\* values 1,1,2,6,24,120.
C8_FactorialAsStated ==
    FactorialScenario => (FactorialShape /\ PopReturns(trace) = <<1, 1, 2, 6, 24, 120>>)

\* C8, amended: for factorial with starting value and maxDepth 5 the trace
\* is five nested pushes with arguments 5,4,3,2,1, then five pops with
\* arguments 1,2,3,4,5 reporting the return values 1,2,6,24,120, and
\* getRecursiveInfo returns name factorial, params [n] and the line of the
\* declaration.
C8_Factorial ==
    FactorialScenario => (FactorialShape /\ PopReturns(trace) = <<1, 2, 6, 24, 120>>)

\* the factorial scenario has run to its end
C8_Witness == FactorialScenario /\ Len(trace) = 10

\* C9 as stated: a simulation that starts from the value 30 shows no frame
\* deeper than 5 and is balanced.
C9_TruncationAsStated ==
    (pc = "returned" /\ Simulated /\ trace # <<>> /\ trace[1].frame.argValue = 30) =>
        /\ \A i \in DOMAIN trace : \A f \in FramesOf(trace[i]) : f.depth <= 5
        /\ Pops(trace) = Pushes(trace)

\* C10 as stated: neither getRecursiveInfo nor simulateRecursion raises,
\* whatever the tree lacks.
C10_NeverRaises ==
    /\ pc # "threw"
    /\ pc # "idle" => info.ok

\* the analysis of simulateRecursion has succeeded for a tree
Analysed == pc \in {"simulating", "returned"} /\ ~IsNull(ast)

\* the positions of the table whose function is flagged self-recursive
Flagged(table) == {i \in DOMAIN table.rec : table.rec[i].isRecursive}

FibNames == {nFib, nFibFact}

\* those whose lower-cased form contains "fact" and not "fib"
FactNames == {nFactorial, nMyFact}

\* r is the value that names the n-th Fibonacci number (n >= 0), the
\* product 1*2*...*n or n itself, according to the name; the numbers of the
\* two sequences are told by their recurrences
ReturnAsNamed(name, n, r) ==
    IF name \in FibNames
    THEN /\ n = 0 => r = 0
         /\ n = 1 => r = 1
         /\ n >= 2 => r = calculateReturn(name, n - 1) + calculateReturn(name, n - 2)
    ELSE IF name \in FactNames
    THEN /\ n <= 1 => r = 1
         /\ n >= 2 => r = n * calculateReturn(name, n - 1)
    ELSE r = n

\* C12: the return value that calculateReturn gives every simulated frame
\* is the Fibonacci number of its argument when the lower-cased name
\* contains "fib", otherwise the product 1*2*...*n (1 for n <= 1) when it
\* contains "fact", otherwise the argument itself.
C12_CalculateReturn ==
    (HasTrace /\ Simulated) =>
        \A i \in DOMAIN trace : \A f \in FramesOf(trace[i]) :
            ReturnAsNamed(f.name, f.argValue, f.returnValue)

\* a returned simulation of FibFact, whose name holds both words in mixed
\* case, with the frame of argument 6 returning 8
C12_Witness ==
    /\ pc = "returned"
    /\ Simulated
    /\ \E i \in DOMAIN trace :
          /\ trace[i].frame.name = nFibFact
          /\ trace[i].frame.argValue = 6
          /\ trace[i].frame.returnValue = 8

\* the names that occur in the subtree of node
NamesIn(node) == {NameOf(n) : n \in {m \in NodesOf(node) : Truthy(NameOf(m))}}

\* the call expressions in the subtree of node
CallsIn(node) == {n \in NodesOf(node) : TypeOf(n) = "CALL_EXPR"}

\* the subtree in which the callee of call expression c is looked for
CalleePart(c) == IF ChildrenOf(c) = <<>> THEN Null ELSE ChildrenOf(c)[1]

\* the names that occur in the second and later children of c
ArgumentNames(c) ==
    UNION {NamesIn(ChildrenOf(c)[i]) : i \in 2 .. Len(ChildrenOf(c))}

\* C13: the callee of a call expression is no name or a name of the
\* subtree of its first child, and a function is flagged self-recursive
\* only if its name occurs in the first child's subtree of a call in its
\* body: its name among the arguments of a call does not flag it.
C13_CalleeFromFirstChild ==
    /\ \A c \in CallsIn(ast) :
          \/ findCalleeFromFirstChild(c) = NoName
          \/ findCalleeFromFirstChild(c) \in NamesIn(CalleePart(c))
    /\ Analysed =>
          \A i \in Flagged(functions) :
              \E c \in CallsIn(functions.rec[i].body) :
                  functions.keys[i] \in NamesIn(CalleePart(c))

\* a function that passes its own name as an argument of a call of another
\* function, and is not flagged
C13_Witness ==
    /\ Analysed
    /\ pc = "returned"
    /\ \E i \in DOMAIN functions.keys :
          /\ i \notin Flagged(functions)
          /\ \E c \in CallsIn(functions.rec[i].body) :
                /\ functions.keys[i] \in ArgumentNames(c)
                /\ Truthy(findCalleeFromFirstChild(c))
                /\ findCalleeFromFirstChild(c) # functions.keys[i]

\* C14: after detectRecursiveFunctions a function record is flagged
\* self-recursive if and only if the subtree of its declaration holds a
\* call expression whose resolved callee is the function's own name.
C14_RecursiveIff ==
    Analysed =>
        \A i \in DOMAIN functions.keys :
            functions.rec[i].isRecursive <=>
                \E c \in CallsIn(functions.rec[i].body) :
                    findCalleeFromFirstChild(c) = functions.keys[i]

\* a table with a flagged function and with a function that calls another
\* one and is not flagged
C14_Witness ==
    /\ Analysed
    /\ pc = "returned"
    /\ Flagged(functions) # {}
    /\ \E i \in DOMAIN functions.keys :
          /\ i \notin Flagged(functions)
          /\ functions.rec[i].calls # <<>>

\* the calls of the table's functions in the subtree of node, each as the
\* pair of its callee and its line
ResolvedCalls(node, table) ==
    {[name |-> findCalleeFromFirstChild(c), line |-> c.line] :
        c \in {d \in CallsIn(node) :
                  IndexOf(findCalleeFromFirstChild(d), table.keys) > 0}}

\* C15: the call list of a function holds no two entries with the same
\* callee and line, and holds an entry for every pair of callee and line of
\* a call expression of the body whose callee is a function of the table.
C15_CallsDistinct ==
    Analysed =>
        \A i \in DOMAIN functions.keys :
            LET list == functions.rec[i].calls
            IN  /\ \A j, k \in DOMAIN list : list[j] = list[k] => j = k
                /\ {list[j] : j \in DOMAIN list}
                       = ResolvedCalls(functions.rec[i].body, functions)

\* a function with three calls of one function of the table, two of them
\* on one line, and with two entries in its list
C15_Witness ==
    /\ Analysed
    /\ pc = "returned"
    /\ \E i \in DOMAIN functions.keys :
          /\ Len(functions.rec[i].calls) = 2
          /\ functions.rec[i].calls[1].name = functions.rec[i].calls[2].name
          /\ Cardinality({c \in CallsIn(functions.rec[i].body) :
                 findCalleeFromFirstChild(c) = functions.rec[i].calls[1].name}) = 3

RECURSIVE PreOrder(_), PreOrderFrom(_, _)
\* the nodes of a tree in the order of a depth-first walk, parents before
\* children, null entries left out
PreOrder(node) ==
    IF IsNull(node) THEN <<>>
    ELSE <<node>> \o PreOrderFrom(ChildrenOf(node), 1)

\* the same for the children from index i
PreOrderFrom(children, i) ==
    IF i > Len(children) THEN <<>>
    ELSE PreOrder(children[i]) \o PreOrderFrom(children, i + 1)

\* the calls of name in the subtree of node, in the order of the walk
CallsOf(node, name) ==
    SelectSeq(PreOrder(node),
              LAMBDA n : TypeOf(n) = "CALL_EXPR" /\ findCalleeFromFirstChild(n) = name)

\* the first argument of call expression c, Null when it has none
FirstArgument(c) == IF Len(ChildrenOf(c)) >= 2 THEN ChildrenOf(c)[2] ELSE Null

\* the integer literals among the children of node
LiteralsOf(node) ==
    SelectSeq(ChildrenOf(node), LAMBDA ch : TypeOf(ch) = "INTEGER_LITERAL")

\* the argument of the recursive call that the step is inferred from
StepArgument ==
    FirstArgument(CallsOf(Lookup(functions, recursiveFunc).body, recursiveFunc)[1])

DeclsIn(tree) == {n \in NodesOf(tree) : TypeOf(n) = "FUNCTION_DECL"}

\* the names of the named parameter declarations among the children of a
\* declaration, in child order
ParamNames(decl) ==
    LET ps == SelectSeq(ChildrenOf(decl),
                        LAMBDA ch : TypeOf(ch) = "PARM_DECL" /\ Truthy(NameOf(ch)))
    IN  [j \in DOMAIN ps |-> NameOf(ps[j])]

\* C17: the table holds one record for each name of a named function
\* declaration of the tree, wherever it is, and no other; the record is
\* that of a declaration of this name, with its line and with the names of
\* its parameter declaration children in child order.  Declarations
\* without name give no record, and a tree without function declaration
\* gives the empty table.
C17_ExtractFunctions ==
    Analysed =>
        /\ {functions.keys[i] : i \in DOMAIN functions.keys}
               = {NameOf(n) : n \in {d \in DeclsIn(ast) : Truthy(NameOf(d))}}
        /\ \A i, j \in DOMAIN functions.keys :
               functions.keys[i] = functions.keys[j] => i = j
        /\ DOMAIN functions.rec = DOMAIN functions.keys
        /\ \A i \in DOMAIN functions.keys :
               /\ functions.rec[i].body \in DeclsIn(ast)
               /\ NameOf(functions.rec[i].body) = functions.keys[i]
               /\ functions.rec[i].name = functions.keys[i]
               /\ functions.rec[i].line = functions.rec[i].body.line
               /\ functions.rec[i].params = ParamNames(functions.rec[i].body)
        /\ DeclsIn(ast) = {} => functions = EmptyTable

\* a table from a tree with a declaration without name, a function of two
\* named parameters and an unnamed one, and a function declared inside it
C17_Witness ==
    /\ Analysed
    /\ pc = "returned"
    /\ \E d \in DeclsIn(ast) : ~Truthy(NameOf(d))
    /\ \E i, j \in DOMAIN functions.keys :
          /\ i # j
          /\ Len(functions.rec[i].params) = 2
          /\ \E ch \in NodesOf(functions.rec[i].body) :
                TypeOf(ch) = "PARM_DECL" /\ ~Truthy(NameOf(ch))
          /\ functions.rec[j].body \in NodesOf(functions.rec[i].body)

RECURSIVE OpenFrom(_, _, _, _)
\* the positions of the open push events after event k of t, given those
\* open after event i, each pop closing the push opened last
OpenFrom(t, i, k, open) ==
    IF i >= k THEN open
    ELSE IF t[i + 1].action = "push" THEN OpenFrom(t, i + 1, k, Append(open, i + 1))
    ELSE OpenFrom(t, i + 1, k, SubSeq(open, 1, Len(open) - 1))

\* the positions of the push events of t that have no pop among the first
\* k events, oldest first
OpenAt(t, k) == OpenFrom(t, 0, k, <<>>)

\* the snapshot of the caller of event k: that of the push open just
\* before it, empty when none is
CallerStack(t, k) ==
    LET open == OpenAt(t, k - 1)
    IN  IF open = <<>> THEN <<>> ELSE t[open[Len(open)]].fullStack

\* all but the last element
ButLast(s) == SubSeq(s, 1, Len(s) - 1)

\* frame g is frame f as a snapshot shows it (the main fallback leaves the
\* argValue out of its snapshot)
ShownAs(f, g) ==
    /\ g.name = f.name
    /\ g.line = f.line
    /\ g.depth = f.depth
    /\ ArgValueShown(g) = ArgValueShown(f)
    /\ Simulated => g = f

ArgAtMostOne(frame) ==
    /\ "argValue" \in DOMAIN frame
    /\ Simulated => frame.argValue <= 1

\* the frame is tagged isBaseCase = true
TaggedBase(frame) == "isBaseCase" \in DOMAIN frame /\ frame.isBaseCase

\* C19: the push of a frame whose argument is <= 1 is followed at once by
\* the pop of the same frame (it is the last event only while the
\* simulation is in that frame), and a pop is tagged isBaseCase = true
\* exactly when the argValue of its frame is <= 1.
C19_BaseCase ==
    HasTrace =>
        \A k \in DOMAIN trace :
            /\ (trace[k].action = "push" /\ ArgAtMostOne(trace[k].frame)) =>
                  IF k = Len(trace) THEN pc = "simulating"
                  ELSE /\ trace[k + 1].action = "pop"
                       /\ FrameKey(trace[k + 1].frame, FALSE)
                              = FrameKey(trace[k].frame, FALSE)
            /\ trace[k].action = "pop" =>
                  (TaggedBase(trace[k].frame) <=> ArgAtMostOne(trace[k].frame))

\* a returned simulation that went down to a frame of argument 1 below
\* other frames: its pop is tagged and follows its push, the pop of its
\* caller is not tagged
C19_Witness ==
    /\ pc = "returned"
    /\ Simulated
    /\ \E k \in DOMAIN trace :
          /\ k + 2 \in DOMAIN trace
          /\ trace[k].action = "push"
          /\ trace[k].frame.argValue = 1
          /\ trace[k].frame.depth >= 1
          /\ trace[k + 1].action = "pop"
          /\ TaggedBase(trace[k + 1].frame)
          /\ trace[k + 2].action = "pop"
          /\ ~TaggedBase(trace[k + 2].frame)

\* C20: in every snapshot the argument of a frame is smaller than that of
\* the frame below it: it is the argument below minus the inferred operand
\* when that is smaller, and the argument below minus 1 otherwise.
C20_ArgumentsDecrease ==
    (HasTrace /\ Simulated) =>
        \A k \in DOMAIN trace :
            \A j \in 1 .. (Len(trace[k].fullStack) - 1) :
                LET below == trace[k].fullStack[j].argValue
                    above == trace[k].fullStack[j + 1].argValue
                IN  /\ above < below
                    /\ above = IF below - stepInfo.value < below
                               THEN below - stepInfo.value
                               ELSE below - 1

\* a returned simulation with an inferred operand of 0 or less and a
\* snapshot of three frames
C20_Witness ==
    /\ pc = "returned"
    /\ Simulated
    /\ stepInfo.value <= 0
    /\ \E k \in DOMAIN trace : Len(trace[k].fullStack) = 3

\* the named declaration references in the subtree of node, in the order
\* of the walk
DeclRefsIn(node) ==
    SelectSeq(PreOrder(node),
              LAMBDA n : TypeOf(n) = "DECL_REF_EXPR" /\ Truthy(NameOf(n)))

\* the nodes in the subtree of node at which searchForName stops: a named
\* declaration reference or a node whose name is not blank
NamedIn(node) ==
    SelectSeq(PreOrder(node),
              LAMBDA n : \/ TypeOf(n) = "DECL_REF_EXPR" /\ Truthy(NameOf(n))
                         \/ Truthy(NameOf(n)) /\ Truthy(trim(NameOf(n))))

\* C21 as stated: the callee is the name of a declaration reference
\* whenever the first child's subtree holds a named one.
C21_DeclRefPreferred ==
    \A c \in CallsIn(ast) :
        DeclRefsIn(CalleePart(c)) # <<>> =>
            \E k \in DOMAIN DeclRefsIn(CalleePart(c)) :
                findCalleeFromFirstChild(c) = NameOf(DeclRefsIn(CalleePart(c))[k])

\* C21, amended: the callee is the name of the first node, in depth-first
\* pre-order of the first child's subtree, that is a named declaration
\* reference or has a name that is not blank, and null when there is none;
\* a named declaration reference below or after such a node is not used.
C21_FirstNamed ==
    \A c \in CallsIn(ast) :
        findCalleeFromFirstChild(c) =
            IF NamedIn(CalleePart(c)) = <<>> THEN NoName
            ELSE NameOf(NamedIn(CalleePart(c))[1])

\* a function flagged on account of a call whose first child is named as
\* the function and holds a declaration reference of another name
C21_Witness ==
    /\ Analysed
    /\ pc = "returned"
    /\ Truthy(recursiveFunc)
    /\ \E c \in CallsIn(Lookup(functions, recursiveFunc).body) :
          /\ findCalleeFromFirstChild(c) = recursiveFunc
          /\ DeclRefsIn(CalleePart(c)) # <<>>
          /\ \A k \in DOMAIN DeclRefsIn(CalleePart(c)) :
                NameOf(DeclRefsIn(CalleePart(c))[k]) # recursiveFunc

\* the operand that the argument of the first self-call of the selected
\* function gives
OperandOfFirstCall ==
    IF TypeOf(StepArgument) = "BINARY_OPERATOR" /\ LiteralsOf(StepArgument) # <<>>
    THEN parseInt(NameOf(LiteralsOf(StepArgument)[1])).value
    ELSE 1

\* C22: the one step rule of a call is that of the second child of the
\* first call expression, in depth-first pre-order of the selected
\* function's declaration, whose callee is the selected function, and every
\* descent of the trace follows it, whatever later call sites hold.
C22_OneStepRule ==
    (HasTrace /\ Simulated) =>
        LET operand == OperandOfFirstCall
            step == IF operand > 0 THEN operand ELSE 1
        IN  /\ stepInfo = [operator |-> "-", value |-> operand]
            /\ \A k \in DOMAIN trace :
                  \A j \in 1 .. (Len(trace[k].fullStack) - 1) :
                      trace[k].fullStack[j].argValue
                          - trace[k].fullStack[j + 1].argValue = step

\* a returned simulation, three frames deep, of a function with two
\* self-calls whose arguments differ
C22_Witness ==
    /\ pc = "returned"
    /\ Simulated
    /\ \E k \in DOMAIN trace : Len(trace[k].fullStack) = 3
    /\ LET sites == CallsOf(Lookup(functions, recursiveFunc).body, recursiveFunc)
       IN  Len(sites) >= 2 /\ FirstArgument(sites[1]) # FirstArgument(sites[2])

\* C23: whatever maxDepth is, also above 20, no snapshot of the trace
\* holds more than 21 frames (a call whose caller's stack holds more than
\* 20 frames returns at once), and the returned trace is balanced.
C23_StackBound ==
    HasTrace =>
        /\ \A k \in DOMAIN trace :
              /\ Len(trace[k].fullStack) <= MaxStack + 1
              /\ Len(trace[k].stack) <= MaxStack + 1
        /\ pc = "returned" => Pops(trace) = Pushes(trace)

\* a returned simulation with maxDepth above 21 that was cut by the stack
\* bound: its deepest frame lies on 20 others and its argument is above 1
C23_Witness ==
    /\ pc = "returned"
    /\ Simulated
    /\ maxDepth > MaxStack + 1
    /\ \E k \in DOMAIN trace :
          /\ trace[k].action = "push"
          /\ Len(trace[k].fullStack) = MaxStack + 1
          /\ trace[k].frame.argValue > 1
          /\ trace[k + 1].action = "pop"

\* C24: when getRecursiveInfo returned a record, the returned trace is not
\* empty and every frame of every event has the name and the line of the
\* record; when it returned null, the trace is empty or is the push and
\* the pop of main.
C24_InfoAgreesWithTrace ==
    (pc = "returned" /\ info.ok) =>
        IF IsNull(info.val)
        THEN \/ trace = <<>>
             \/ /\ Len(trace) = 2
                /\ trace[1].action = "push"
                /\ trace[2].action = "pop"
                /\ trace[1].frame.name = <<"m","a","i","n">>
                /\ trace[2].frame.name = <<"m","a","i","n">>
        ELSE /\ trace # <<>>
             /\ \A k \in DOMAIN trace : \A f \in FramesOf(trace[k]) :
                   f.name = info.val.name /\ f.line = info.val.line

\* a returned simulation of the first of two recursive functions, which
\* getRecursiveInfo named
C24_Witness ==
    /\ pc = "returned"
    /\ info.ok
    /\ ~IsNull(info.val)
    /\ Cardinality(Flagged(functions)) >= 2
    /\ Len(trace) >= 4
    /\ trace[1].frame.name = info.val.name

\* the difference of two numbers
Distance(a, b) == IF a >= b THEN a - b ELSE b - a

\* C25: in a trace for a self-recursive function the frame at index i
\* (from 0) of every snapshot has depth i, the snapshot of a push has
\* depth + 1 frames and that of a pop has depth frames, for the depth of
\* the event's frame, neighbouring events differ by one in snapshot length,
\* the first event is a push at depth 0 and the last event of the returned
\* trace is a pop with an empty snapshot.
C25_DepthStructure ==
    (HasTrace /\ Simulated) =>
        /\ \A k \in DOMAIN trace :
              /\ \A i \in DOMAIN trace[k].fullStack :
                    trace[k].fullStack[i].depth = i - 1
              /\ trace[k].action = "push" =>
                    Len(trace[k].fullStack) = trace[k].frame.depth + 1
              /\ trace[k].action = "pop" =>
                    Len(trace[k].fullStack) = trace[k].frame.depth
              /\ k < Len(trace) =>
                    Distance(Len(trace[k + 1].fullStack), Len(trace[k].fullStack)) = 1
        /\ trace # <<>> => (trace[1].action = "push" /\ trace[1].frame.depth = 0)
        /\ pc = "returned" =>
              /\ trace # <<>>
              /\ trace[Len(trace)].action = "pop"
              /\ trace[Len(trace)].fullStack = <<>>

\* a returned simulation whose frames went four deep
C25_Witness ==
    /\ pc = "returned"
    /\ Simulated
    /\ \E k \in DOMAIN trace :
          trace[k].action = "push" /\ Len(trace[k].fullStack) = 4

\* C26: for a value of 1..20, given as starting argument and depth bound,
\* neither bound cuts the descent of a self-recursive function: a frame
\* that is popped without a descent below it, the deepest one, has an
\* argValue <= 1, and its pop is tagged as a base case.
C26_NoCutInRange ==
    (pc = "returned" /\ Simulated /\ maxDepth \in 1 .. 20) =>
        \A k \in DOMAIN trace :
            (trace[k].action = "push" /\ trace[k + 1].action = "pop") =>
                /\ trace[k].frame.argValue <= 1
                /\ trace[k + 1].frame.argValue <= 1
                /\ TaggedBase(trace[k + 1].frame)

\* the longest descent of the range: from 20 down to 1 in steps of 1
C26_Witness ==
    /\ pc = "returned"
    /\ Simulated
    /\ maxDepth = 20
    /\ Len(trace) = 40
    /\ trace[20].frame.argValue = 1
    /\ TaggedBase(trace[21].frame)

\* the named function declarations of a tree in traversal order
NamedDecls(tree) ==
    SelectSeq(PreOrder(tree),
              LAMBDA n : TypeOf(n) = "FUNCTION_DECL" /\ Truthy(NameOf(n)))

\* those called name
DeclsCalled(decls, name) == SelectSeq(decls, LAMBDA n : NameOf(n) = name)

\* the place of the first declaration called name
FirstPlace(decls, name) ==
    CHOOSE p \in DOMAIN decls :
        /\ NameOf(decls[p]) = name
        /\ \A q \in DOMAIN decls : NameOf(decls[q]) = name => p <= q

\* C27: a name declared by several function declarations has one record,
\* whose body, line and parameters are those of the last of them in
\* traversal order and whose flag is judged on that declaration alone;
\* the records stand in the order of the first declarations of their names.
C27_LastDeclarationWins ==
    Analysed =>
        LET decls == NamedDecls(ast)
        IN  /\ \A i \in DOMAIN functions.keys :
                  LET same == DeclsCalled(decls, functions.keys[i])
                      last == same[Len(same)]
                  IN  /\ same # <<>>
                      /\ functions.rec[i].body = last
                      /\ functions.rec[i].line = last.line
                      /\ functions.rec[i].params = ParamNames(last)
                      /\ functions.rec[i].isRecursive <=>
                             \E c \in CallsIn(last) :
                                 findCalleeFromFirstChild(c) = functions.keys[i]
            /\ \A i, j \in DOMAIN functions.keys :
                  i < j <=> FirstPlace(decls, functions.keys[i])
                                < FirstPlace(decls, functions.keys[j])

\* a function defined with a call of itself and declared again after
\* another function: its record is the first of the table, comes from the
\* later declaration and is not flagged
C27_Witness ==
    /\ Analysed
    /\ pc = "returned"
    /\ Len(functions.keys) >= 2
    /\ LET same == DeclsCalled(NamedDecls(ast), functions.keys[1])
       IN  /\ Len(same) = 2
           /\ functions.rec[1].body = same[2]
           /\ functions.rec[1].body # same[1]
           /\ ~functions.rec[1].isRecursive
           /\ \E c \in CallsIn(same[1]) :
                 findCalleeFromFirstChild(c) = functions.keys[1]

(***************************************************************************)
(* StackVisualizer and ASTProvider                                         *)
(***************************************************************************)

\* C28: whenever the step list is not empty, currentStep is one of its
\* indices, whatever the handlers, the timer and new trees did before
C28_StepInRange ==
    StepsLength(view) > 0 =>
        view.currentStep \in 0 .. StepsLength(view) - 1

\* the last step is shown by the component
OnLastStep == view.currentStep = StepsLength(view) - 1

\* auto-play runs and the user has stopped acting
PlaysAlone == ~view.attended /\ view.isPlaying

C30_ClearedStaysEmpty == provider.cleared => AnalysisEmpty(provider)

====
